---- MODULE Spec2Model ----
(***************************************************************************)
(* State-machine model of app.py, a Streamlit script.  Every user          *)
(* interaction re-runs the script top to bottom against the persistent     *)
(* st.session_state; one action of the model is one such script run:       *)
(* the "Generate Live Report" handler, then the DISPLAY ENGINE, then the   *)
(* "Evaluate RSI Strategy" handler.  An uncaught exception ends the run    *)
(* at the raising line.                                                    *)
(*                                                                         *)
(* Encodings.  Python None is the empty tuple and a present value x is     *)
(* <<x>>; NaN in a numeric column is the empty tuple as well.  A data      *)
(* frame is represented by its Close column (the handler scales Open,      *)
(* High, Low and Close by the same factor).  Exchange rates are held in    *)
(* tenths of a rupee.  Fractions are exact reduced pairs <<n, d>>; an RSI   *)
(* <<n, d>> is the value 100 * n / d.  A text is a sequence of character   *)
(* tokens.                                                                 *)
(***************************************************************************)
EXTENDS Integers, Sequences, FiniteSets, TLC

VARIABLES stock_data, analysis_text, comp_info, conversion_rate,
          req, ui, audit, feed

vars == <<stock_data, analysis_text, comp_info, conversion_rate, req, ui, audit, feed>>

session == <<stock_data, analysis_text, comp_info, conversion_rate>>

----------------------------------------------------------------------------
(* Bounds *)

MaxBars == 2
MaxPrice == 2
MaxLen == 8
MaxFlatLen == 15

----------------------------------------------------------------------------
(* Values *)

None == <<>>
Some(x) == <<x>>

EmptyDict == [k \in {} |-> None]

FallbackRate == 835

RECURSIVE SeqsUpTo(_, _)
SeqsUpTo(S, n) ==
  IF n = 0 THEN {<<>>}
  ELSE LET shorter == SeqsUpTo(S, n - 1)
       IN shorter \cup {Append(s, x) : s \in {t \in shorter : Len(t) = n - 1}, x \in S}

Prices == 1..MaxPrice

\* what the market-data provider may return for a report window: for every
\* length up to MaxBars, a flat series and an alternating one
Histories ==
  {[p \in 1..n |-> 1] : n \in 0..MaxBars} \cup {[p \in 1..n |-> 1 + (p % 2)] : n \in 0..MaxBars}

\* a call the run did not make
NotCalled == [ok |-> FALSE, called |-> FALSE]

\* user_query after .strip()
Queries == {"", "aapl"}

Upper(q) == CASE q = "aapl" -> "AAPL" [] OTHER -> q

\* JSON answers of the search endpoint; ok = FALSE is a request that raised
SearchResponses ==
  {[ok |-> FALSE]} \cup {[ok |-> TRUE, quotes |-> qs] : qs \in {<<>>, <<"RELIANCE.NS">>}}

\* stock.info dictionaries; ok = FALSE is a request that raised
Infos ==
  { [ok |-> FALSE],
    [ok |-> TRUE, info |-> EmptyDict],
    [ok |-> TRUE, info |-> [symbol |-> "AAPL", longName |-> "Apple Inc.",
                            website |-> <<"https://", "apple.com", "/", "in">>]] }

\* outcomes of ticker_obj.history(...)
Fetches == {[ok |-> FALSE]} \cup {[ok |-> TRUE, hist |-> h] : h \in Histories}

\* outcomes of the USDINR=X history request
RateFetches == {[ok |-> FALSE], [ok |-> TRUE, hist |-> <<>>], [ok |-> TRUE, hist |-> <<840>>]}

\* outcomes of generate_content: response.text as character tokens
Bodies == {<<"HOLD", "EM_DASH", "RUPEE">>}
Generations == {[ok |-> FALSE]} \cup {[ok |-> TRUE, body |-> b] : b \in Bodies}

----------------------------------------------------------------------------
(* 2. CORE UTILITY FUNCTIONS *)

get_exchange_rate(resp) ==
  IF ~resp.ok THEN FallbackRate
  ELSE IF Len(resp.hist) = 0 THEN FallbackRate   \* iloc[-1] raises, bare except
  ELSE resp.hist[Len(resp.hist)]

\* .replace('https://', '').replace('http://', '').split('/')[0]
RECURSIVE StripSchemes(_)
StripSchemes(w) ==
  IF w = <<>> THEN <<>>
  ELSE IF Head(w) \in {"https://", "http://"} THEN StripSchemes(Tail(w))
  ELSE <<Head(w)>> \o StripSchemes(Tail(w))

RECURSIVE FirstSegment(_)
FirstSegment(w) ==
  IF w = <<>> THEN <<>>
  ELSE IF Head(w) = "/" THEN <<>>
  ELSE <<Head(w)>> \o FirstSegment(Tail(w))

NoTicker == [ticker |-> None, name |-> None, domain |-> None]

\* variant: the check of info for 'symbol' / 'shortName' is missing
get_ticker_and_logo_NoInfoCheck(query, search, inf) ==
  IF ~search.ok THEN NoTicker
  ELSE LET ticker == IF search.quotes # <<>> THEN search.quotes[1] ELSE Upper(query)
       IN IF ~inf.ok THEN NoTicker
          ELSE LET info == inf.info
               IN [ticker |-> Some(ticker),
                   name |-> Some(IF "longName" \in DOMAIN info
                                 THEN info.longName ELSE ticker),
                   domain |-> Some(FirstSegment(StripSchemes(
                                 IF "website" \in DOMAIN info
                                 THEN info.website ELSE <<>>)))]

get_ticker_and_logo(query, search, inf) ==
  IF ~search.ok THEN NoTicker
  ELSE LET ticker == IF search.quotes # <<>> THEN search.quotes[1] ELSE Upper(query)
       IN IF ~inf.ok THEN NoTicker
          ELSE LET info == inf.info
               IN IF "symbol" \notin DOMAIN info /\ "shortName" \notin DOMAIN info
                  THEN NoTicker
                  ELSE [ticker |-> Some(ticker),
                        name |-> Some(IF "longName" \in DOMAIN info
                                      THEN info.longName ELSE ticker),
                        domain |-> Some(FirstSegment(StripSchemes(
                                      IF "website" \in DOMAIN info
                                      THEN info.website ELSE <<>>)))]

\* clean_text replacements, then encode('latin-1', 'replace')
PdfChar(c) ==
  CASE c = "EM_DASH" -> "-"
    [] c = "RUPEE" -> "?"
    [] OTHER -> c

generate_pdf(ticker, name, analysis) ==
  [title |-> <<name, ticker>>,
   body |-> [i \in 1..Len(analysis.body) |-> PdfChar(analysis.body[i])]]

----------------------------------------------------------------------------
(* DISPLAY ENGINE, lines 146-179 *)

NoView == [header |-> None, logo |-> None, metric |-> None, chart |-> None,
           analysis |-> None, pdf |-> None, exception |-> "none"]

Truthy(text) == text # None /\ text[1].body # <<>>

DisplayEngine(sd, info, text) ==
  IF sd = None THEN NoView
  ELSE
    LET hist == sd[1]
        n == Len(hist)
        head == [NoView EXCEPT
                   !.logo = IF info.domain # <<>> THEN Some(info.domain) ELSE None,
                   !.header = Some(<<info.name, info.ticker>>)]
    IN IF ~({"domain", "name", "ticker"} \subseteq DOMAIN info)
       THEN [NoView EXCEPT !.exception = "KeyError"]
       ELSE IF n < 2
       THEN [head EXCEPT !.exception = "IndexError"]
       ELSE
         LET body == [head EXCEPT
                        !.metric = Some(<<hist[n], hist[n] - hist[n - 1]>>),
                        !.chart = Some(hist)]
         IN IF Truthy(text)
            THEN [body EXCEPT
                    !.analysis = text,
                    !.pdf = Some(generate_pdf(info.ticker, info.name, text[1]))]
            ELSE body

----------------------------------------------------------------------------
(* Exact arithmetic for the float columns *)

NaN == <<>>
IsNaN(x) == x = NaN

RECURSIVE GCD(_, _)
GCD(a, b) == IF b = 0 THEN a ELSE GCD(b, a % b)

Abs(a) == IF a < 0 THEN -a ELSE a

\* the reduced fraction n/d, d > 0
Rat(n, d) == LET g == GCD(Abs(n), d) IN <<n \div g, d \div g>>

\* 100 * n / d < t, that is 100 * n < t * d, split so that no product leaves
\* the 32-bit range
RSIBelow(rsi, t) ==
  rsi[1] <= t * (rsi[2] \div 100) + ((t * (rsi[2] % 100) - 1) \div 100)

----------------------------------------------------------------------------
(* "Evaluate RSI Strategy": the column computations of lines 190-205 *)

Com == 13
Threshold == 35
Horizon == 5

\* audit_data['Close'].diff()
diff(close) ==
  [p \in 1..Len(close) |-> IF p = 1 THEN NaN ELSE Rat(close[p] - close[p - 1], 1)]

\* delta.clip(lower=0)
clip_lower0(col) ==
  [p \in 1..Len(col) |-> IF IsNaN(col[p]) THEN NaN
                         ELSE IF col[p][1] < 0 THEN Rat(0, 1) ELSE col[p]]

\* -1 * delta.clip(upper=0)
neg_clip_upper0(col) ==
  [p \in 1..Len(col) |-> IF IsNaN(col[p]) THEN NaN
                         ELSE IF col[p][1] > 0 THEN Rat(0, 1)
                         ELSE Rat(-1 * col[p][1], col[p][2])]

\* one step of ewm(com=13, adjust=False): y = (com * prev + x) / (com + 1)
ewm_step(prev, x) ==
  Rat(Com * prev[1] * x[2] + x[1] * prev[2], (Com + 1) * prev[2] * x[2])

\* col.ewm(com=13, adjust=False).mean(): NaN until the first observation,
\* which seeds the average; min_periods is left at its default of 0
RECURSIVE ewm_mean(_)
ewm_mean(col) ==
  IF col = <<>> THEN <<>>
  ELSE LET n == Len(col)
           before == ewm_mean(SubSeq(col, 1, n - 1))
           prev == IF n = 1 THEN NaN ELSE before[n - 1]
       IN Append(before,
                 IF IsNaN(col[n]) THEN prev
                 ELSE IF IsNaN(prev) THEN col[n]
                 ELSE ewm_step(prev, col[n]))

\* ema_up / ema_down as IEEE floats divide: x/0 is inf, 0/0 is NaN
Inf == <<1, 0>>

FloatDiv(u, d) ==
  IF IsNaN(u) \/ IsNaN(d) THEN NaN
  ELSE IF d[1] = 0 THEN (IF u[1] = 0 THEN NaN ELSE Inf)
  ELSE LET g == GCD(u[1], d[1])
           h == GCD(u[2], d[2])
       IN Rat((u[1] \div (IF g = 0 THEN 1 ELSE g)) * (d[2] \div h),
              (u[2] \div h) * (d[1] \div (IF g = 0 THEN 1 ELSE g)))

\* 100 - (100 / (1 + rs)), as the fraction 1 - 1 / (1 + rs) of 100
RSIOf(rs) ==
  IF IsNaN(rs) THEN NaN
  ELSE IF rs = Inf THEN Rat(1, 1)
  ELSE LET onePlus == Rat(rs[1] + rs[2], rs[2])
           quotient == Rat(onePlus[2], onePlus[1])
       IN Rat(quotient[2] - quotient[1], quotient[2])

RSIColumn(close) ==
  LET delta == diff(close)
      up == clip_lower0(delta)
      down == neg_clip_upper0(delta)
      ema_up == ewm_mean(up)
      ema_down == ewm_mean(down)
  IN [p \in 1..Len(close) |-> RSIOf(FloatDiv(ema_up[p], ema_down[p]))]

\* np.where(audit_data['RSI'] < 35, 'BUY', 'WAIT'); a comparison with NaN is False
SignalOf(rsi) ==
  IF ~IsNaN(rsi) /\ RSIBelow(rsi, Threshold) THEN "BUY" ELSE "WAIT"

\* audit_data['Close'].shift(-5)
shift_back(close) ==
  [p \in 1..Len(close) |-> IF p + Horizon <= Len(close) THEN Some(close[p + Horizon]) ELSE NaN]

\* variant: >= in place of >, a tie counts as a hit
ResultOf_TieCounts(future, close) ==
  IF ~IsNaN(future) /\ future[1] >= close THEN 1 ELSE 0

\* (Future_Price > Close).astype(int); a comparison with NaN is False
ResultOf(future, close) ==
  IF ~IsNaN(future) /\ future[1] > close THEN 1 ELSE 0

\* variant: .dropna() is missing, no row is dropped
RowHasNaN_NoDrop(frame, p) == FALSE

\* audit_data[audit_data['Signal'] == 'BUY'].dropna(): the kept row labels
RowHasNaN(frame, p) == IsNaN(frame.RSI[p]) \/ IsNaN(frame.Future_Price[p])

Hits(frame) ==
  {p \in 1..Len(frame.Close) : frame.Signal[p] = "BUY" /\ ~RowHasNaN(frame, p)}

RECURSIVE SumOver(_, _)
SumOver(col, rows) ==
  IF rows = {} THEN 0
  ELSE LET p == CHOOSE q \in rows : TRUE
       IN col[p] + SumOver(col, rows \ {p})

\* hits['Result'].mean() * 100
Accuracy(frame, rows) == Rat(100 * SumOver(frame.Result, rows), Cardinality(rows))

AuditFrame(close) ==
  LET rsi == RSIColumn(close)
      future == shift_back(close)
  IN [Close |-> close,
      RSI |-> rsi,
      Signal |-> [p \in 1..Len(close) |-> SignalOf(rsi[p])],
      Future_Price |-> future,
      Result |-> [p \in 1..Len(close) |-> ResultOf(future[p], close[p])]]

----------------------------------------------------------------------------
(* Session state and script runs *)

InitialRate == 10

NoReq == [button |-> "none", query |-> "", search |-> NotCalled, info |-> NotCalled,
          fetch |-> NotCalled, gen |-> NotCalled]

\* the audit series of the market-data provider (period="1y")
AuditSeries ==
  SeqsUpTo(Prices, MaxLen)
    \cup {[p \in 1..n |-> c] : n \in (Com + 2)..MaxFlatLen, c \in Prices}

AuditFetches == {[ok |-> FALSE]} \cup {[ok |-> TRUE, hist |-> h] : h \in AuditSeries}

\* hist.tail(10)
tail10(hist) == SubSeq(hist, IF Len(hist) > 10 THEN Len(hist) - 9 ELSE 1, Len(hist))

\* hist[col] = hist[col] * rate
Localize(hist, rate) == [p \in 1..Len(hist) |-> hist[p] * rate]

\* lines 187-210, entered with the button pressed: the uncaught exception,
\* the messages written and the computed frame
AuditHandler(fetch) ==
  IF ~fetch.ok
  THEN [exception |-> "yfinance:187", messages |-> {}, out |-> None]
  ELSE IF fetch.hist = <<>>                        \* audit_data.empty
  THEN [exception |-> "none", messages |-> {}, out |-> None]
  ELSE LET frame == AuditFrame(fetch.hist)
           hits == Hits(frame)
       IN IF hits # {}
          THEN [exception |-> "none",
                messages |-> {"metric: Historical Strategy Accuracy",
                              "write: Recent 'Oversold' Buy Signals:"},
                out |-> Some([frame |-> frame, hits |-> hits,
                              accuracy |-> Some(Accuracy(frame, hits))])]
          ELSE [exception |-> "none",
                messages |-> {"warning: No 'Oversold' (RSI < 35) signals detected"},
                out |-> Some([frame |-> frame, hits |-> hits, accuracy |-> None])]

\* the rest of a script run once the sidebar block has finished: the DISPLAY
\* ENGINE, then tab2 with or without its button pressed
FinishRun(sd, info, text, msgs, evaluate, fetch) ==
  LET view == DisplayEngine(sd, info, text)
  IN IF view.exception # "none"
     THEN /\ ui' = [messages |-> msgs, view |-> view,
                    exception |-> view.exception, tab2 |-> FALSE]
          /\ audit' = None
     ELSE IF evaluate
     THEN LET a == AuditHandler(fetch)
          IN /\ ui' = [messages |-> msgs \cup a.messages, view |-> view,
                       exception |-> a.exception, tab2 |-> TRUE]
             /\ audit' = a.out
     ELSE /\ ui' = [messages |-> msgs, view |-> view,
                    exception |-> "none", tab2 |-> TRUE]
          /\ audit' = None

FreshSession ==
  /\ stock_data = None
  /\ analysis_text = None
  /\ comp_info = EmptyDict
  /\ conversion_rate = InitialRate
  /\ req = NoReq
  /\ ui = [messages |-> {}, view |-> NoView, exception |-> "none", tab2 |-> TRUE]
  /\ audit = None

Init == FreshSession /\ feed = NotCalled

\* lines 101-143 followed by the rest of the run; an argument is NotCalled
\* when the run does not make that call
GenerateLiveReport(query, search, inf, fetch, rateResp, gen) ==
  LET resolved == get_ticker_and_logo(query, search, inf)
      request == [button |-> "report", query |-> query, search |-> search,
                  info |-> inf, fetch |-> fetch, gen |-> gen]
  IN
  /\ req' = request
  /\ UNCHANGED feed
  /\ IF query = ""
     THEN /\ UNCHANGED session
          /\ FinishRun(stock_data, comp_info, analysis_text,
                       {"warning: Please enter a name or ticker."}, FALSE, NotCalled)
     ELSE IF resolved.ticker = None
     THEN /\ UNCHANGED session
          /\ FinishRun(stock_data, comp_info, analysis_text,
                       {"error: Invalid Ticker."}, FALSE, NotCalled)
     ELSE IF ~fetch.ok
     THEN \* ticker_obj.history raises at line 111, outside any try
          /\ UNCHANGED session
          /\ ui' = [messages |-> {}, view |-> NoView,
                    exception |-> "yfinance:111", tab2 |-> FALSE]
          /\ audit' = None
     ELSE
       LET rate == get_exchange_rate(rateResp)
           hist == Localize(fetch.hist, rate)
           info == [ticker |-> resolved.ticker[1], name |-> resolved.name[1],
                    domain |-> resolved.domain[1]]
           prompt == [name |-> info.name, ticker |-> info.ticker, rate |-> rate,
                      data_summary |-> tail10(hist)]
           text == IF gen.ok THEN Some([body |-> gen.body, prompt |-> prompt])
                   ELSE analysis_text
       IN /\ stock_data' = Some(hist)
          /\ conversion_rate' = rate
          /\ comp_info' = info
          /\ analysis_text' = text
          /\ FinishRun(Some(hist), info, text,
                       IF gen.ok THEN {} ELSE {"error: AI Reasoning Error"},
                       FALSE, NotCalled)

\* a run with the tab2 button pressed; the button exists only if the previous
\* run reached line 185
EvaluateRSIStrategy(fetch) ==
  /\ ui.tab2
  /\ req' = [NoReq EXCEPT !.button = "audit",
                          !.fetch = IF DisplayEngine(stock_data, comp_info,
                                                     analysis_text).exception = "none"
                                    THEN fetch ELSE NotCalled]
  /\ UNCHANGED <<session, feed>>
  /\ FinishRun(stock_data, comp_info, analysis_text, {}, TRUE, fetch)

\* a run caused by any other widget: no button is pressed
Rerun ==
  /\ req' = NoReq
  /\ UNCHANGED <<session, feed>>
  /\ FinishRun(stock_data, comp_info, analysis_text, {}, FALSE, NotCalled)

\* the external answers a "Generate Live Report" run may meet
Generate ==
  \E query \in Queries :
  \E search \in (IF query = "" THEN {NotCalled} ELSE SearchResponses) :
  \E inf \in (IF search.ok THEN Infos ELSE {NotCalled}) :
  \E fetch \in (IF query # "" /\ get_ticker_and_logo(query, search, inf).ticker # None
                THEN Fetches ELSE {NotCalled}) :
  \E rateResp \in (IF fetch.ok THEN RateFetches ELSE {NotCalled}) :
  \E gen \in (IF fetch.ok THEN Generations ELSE {NotCalled}) :
    GenerateLiveReport(query, search, inf, fetch, rateResp, gen)

Evaluate == \E fetch \in Fetches : EvaluateRSIStrategy(fetch)

Next == Generate \/ Evaluate \/ Rerun

Spec == Init /\ [][Next]_vars

\* the auditor in a fresh session, over the audit series the provider may hold
InitAudit == FreshSession /\ feed \in AuditFetches

EvaluateFeed == EvaluateRSIStrategy(feed)

NextAudit == EvaluateFeed

SpecAudit == InitAudit /\ [][NextAudit]_vars

----------------------------------------------------------------------------
(* Properties *)

ReportKeys == {"ticker", "name", "domain"}

\* the request was turned away before any market data was asked for
Rejected(r) ==
  \/ r.query = ""
  \/ ~r.search.ok
  \/ ~r.info.ok
  \/ {"symbol", "shortName"} \cap DOMAIN r.info.info = {}

\* C1: whenever the analysis text is displayed (and fed to the PDF), it is the
\* text generated for the ticker, rate and series the session holds now.
C1_AnalysisMatchesSession ==
  ui.view.analysis # None =>
    LET prompt == ui.view.analysis[1].prompt
    IN /\ prompt.ticker = comp_info.ticker
       /\ prompt.name = comp_info.name
       /\ prompt.rate = conversion_rate
       /\ prompt.data_summary = tail10(stock_data[1])

\* C2: no failure of an external call leaves a user action as an unhandled
\* exception.
C2_ExternalFailuresCaught ==
  ui.exception \notin {"yfinance:111", "yfinance:187"}

\* C3: a report request whose ticker resolves but whose price series is empty
\* is reported and skipped: the empty series is not stored, no generative call
\* is made, and no metric or chart is rendered.
C3_EmptySeriesSkipped ==
  (req.button = "report" /\ req.fetch.ok /\ req.fetch.hist = <<>>) =>
    /\ ui.messages # {}
    /\ stock_data # Some(<<>>)
    /\ req.gen = NotCalled
    /\ ui.view.metric = None
    /\ ui.view.chart = None
    /\ ui.exception = "none"

\* C4: an audit over an empty price series tells the user so: some message is
\* written.
C4_EmptyAuditReported ==
  (req.button = "audit" /\ req.fetch.ok /\ req.fetch.hist = <<>>) =>
    (ui.exception = "none" /\ ui.messages # {})

\* the BUY bars of the claim: RSI defined and below the threshold, horizon
\* inside the series
Evaluable(frame) ==
  {p \in 1..Len(frame.Close) :
     /\ ~IsNaN(frame.RSI[p])
     /\ RSIBelow(frame.RSI[p], Threshold)
     /\ p + Horizon <= Len(frame.Close)}

Winners(frame) ==
  {p \in Evaluable(frame) : frame.Close[p + Horizon] > frame.Close[p]}

\* C5: the reported hit rate is 100 * |BUY bars with a higher close five
\* sessions later| / |BUY bars whose horizon lies inside the series|; a BUY
\* bar past the horizon is in neither count and a tie is a miss.
C5_HitRate ==
  (audit # None /\ audit[1].accuracy # None) =>
    LET frame == audit[1].frame
    IN /\ \A p \in 1..Len(frame.Close) :
            frame.Signal[p] = "BUY" <=>
              (~IsNaN(frame.RSI[p]) /\ RSIBelow(frame.RSI[p], Threshold))
       /\ Evaluable(frame) # {}
       /\ LET rate == audit[1].accuracy[1]
          IN rate[1] * Cardinality(Evaluable(frame))
               = 100 * Cardinality(Winners(frame)) * rate[2]

C5_Witness ==
  /\ audit # None
  /\ audit[1].accuracy # None
  /\ LET frame == audit[1].frame
     IN /\ \E p \in 1..Len(frame.Close) :
             frame.Signal[p] = "BUY" /\ p + Horizon > Len(frame.Close)
        /\ \E p \in Evaluable(frame) : frame.Close[p + Horizon] = frame.Close[p]
        /\ Winners(frame) # {}

\* C6: a non-empty series without any BUY bar that has a five-session outcome
\* yields the "no signals" warning and no accuracy metric.
C6_NoSignalsNoRate ==
  (audit # None /\ Evaluable(audit[1].frame) = {}) =>
    /\ audit[1].accuracy = None
    /\ ui.messages = {"warning: No 'Oversold' (RSI < 35) signals detected"}
    /\ ui.exception = "none"

C6_Witness ==
  /\ audit # None
  /\ Evaluable(audit[1].frame) = {}
  /\ \E p \in 1..Len(audit[1].frame.Close) : audit[1].frame.Signal[p] = "BUY"
  /\ "warning: No 'Oversold' (RSI < 35) signals detected" \in ui.messages

\* C7: the RSI is undefined at every bar with fewer than 14 accumulated price
\* changes (the first 14 bars), and no such bar is marked BUY.
C7_WarmupUndefined ==
  audit # None =>
    \A p \in 1..Len(audit[1].frame.Close) :
      p <= Com + 1 => (IsNaN(audit[1].frame.RSI[p]) /\ audit[1].frame.Signal[p] # "BUY")

\* C8: on a constant series of at least 15 bars the RSI is 50 at every
\* eligible bar (the 15th onward).
C8_FlatIsFifty ==
  (/\ audit # None
   /\ Len(audit[1].frame.Close) >= Com + 2
   /\ \A p \in 1..Len(audit[1].frame.Close) :
        audit[1].frame.Close[p] = audit[1].frame.Close[1]) =>
    \A p \in (Com + 2)..Len(audit[1].frame.Close) : audit[1].frame.RSI[p] = Rat(50, 100)

\* C9: a report request rejected before any data is fetched (empty query, or
\* no ticker resolved) leaves stock_data, comp_info, conversion_rate and
\* analysis_text unchanged, writes a warning or error, and the display shows
\* what the unchanged state shows.
C9_RejectedKeepsSession ==
  [][(req'.button = "report" /\ Rejected(req')) =>
       /\ session' = session
       /\ ui'.messages \in {{"warning: Please enter a name or ticker."},
                            {"error: Invalid Ticker."}}
       /\ ui'.view = DisplayEngine(stock_data, comp_info, analysis_text)]_vars

C9_Witness ==
  /\ req.button = "report"
  /\ req.query # ""
  /\ Rejected(req)
  /\ stock_data # None
  /\ ui.view.chart # None
  /\ ui.view.analysis # None

\* C10: whenever stock_data is set, it holds at least two bars and comp_info
\* has the keys ticker, name and domain.
C10_DisplayPrecondition ==
  stock_data # None =>
    (Len(stock_data[1]) >= 2 /\ ReportKeys \subseteq DOMAIN comp_info)

====
